---- MODULE Spec2Model ----
(***************************************************************************)
(* Real-time synchronisation core of the trip-planning client:             *)
(*   WebSocketProvider (context/WebSocketContext.js)  - connection manager *)
(*   TripsProvider     (context/TripsContext.js)      - trip list cache    *)
(*   TripDetail        (components/TripDetail.js)     - subscriber/refetch *)
(*   tripsService      (services/tripsService.js)     - backend requests   *)
(* The browser's WebSocket object follows the WHATWG WebSockets standard:  *)
(* close() moves CONNECTING/OPEN to CLOSING at once, the close event comes *)
(* later as its own task, and a message event fires only while OPEN.       *)
(***************************************************************************)
EXTENDS Integers, Sequences, FiniteSets, TLC

\* ---------------------------------------------------------------- bounds
MaxInflight == 1  \* frames in flight from the server at one time
MaxReq == 3       \* backend requests issued in one run
MaxVer == 2       \* versions a backend trip goes through
MaxSend == 1      \* messages handed to the socket in one run

RoomSeq == <<"A", "B">>   \* trip ids, in the backend's list order
Rooms == {RoomSeq[i] : i \in 1..Len(RoomSeq)}
NoRoom == "none"          \* null tripId / no route / missing trip_id
Sockets == 1..MaxReq      \* every socket is created by a resolved request
NoSocket == 0             \* wsRef.current = null

\* ------------------------------------------------------- inbound frames
NoType == "undefined"
NoEvent == "none"
EventTypes == {"trip_updated", "trip_created", "user_joined", "user_left"}

\* Raw text frames the server can put on a channel: text that is not JSON,
\* the JSON literal null, and JSON objects with or without a type field.
RawFrames ==
    {[raw |-> "text", type |-> NoType, trip_id |-> NoRoom],
     [raw |-> "null", type |-> NoType, trip_id |-> NoRoom]}
    \cup {[raw |-> "object", type |-> "trip_updated", trip_id |-> x] :
             x \in Rooms \cup {NoRoom}}
    \cup {[raw |-> "object", type |-> t, trip_id |-> NoRoom] :
             t \in (EventTypes \ {"trip_updated"}) \cup {NoType, "ping"}}
    \cup {[raw |-> "object", type |-> "ping", trip_id |-> x] : x \in Rooms}

\* JSON.parse(event.data): throws on text that is not JSON.
JSONparse(f) ==
    IF f.raw = "text"
    THEN [threw |-> TRUE, isNull |-> FALSE, type |-> NoType, trip_id |-> NoRoom]
    ELSE [threw |-> FALSE, isNull |-> (f.raw = "null"),
          type |-> f.type, trip_id |-> f.trip_id]

\* (mutant) the default branch dispatches instead of only logging
handleWebSocketMessage_DefaultDispatches(data) ==
    CASE data.type = "trip_updated" -> "tripUpdated"
      [] data.type = "trip_created" -> "tripCreated"
      [] data.type = "user_joined"  -> "userJoined"
      [] data.type = "user_left"    -> "userLeft"
      [] OTHER                      -> "tripUpdated"

\* (mutant) the two presence cases dispatch each other's event
handleWebSocketMessage_SwapsPresence(data) ==
    CASE data.type = "trip_updated" -> "tripUpdated"
      [] data.type = "trip_created" -> "tripCreated"
      [] data.type = "user_joined"  -> "userLeft"
      [] data.type = "user_left"    -> "userJoined"
      [] OTHER                      -> NoEvent

\* (mutant) a type the switch does not name is handled as trip_updated
handleWebSocketMessage_UnknownRefetches(data) ==
    CASE data.type = "trip_updated" -> "tripUpdated"
      [] data.type = "trip_created" -> "tripCreated"
      [] data.type = "user_joined"  -> "userJoined"
      [] data.type = "user_left"    -> "userLeft"
      [] data.type = NoType         -> NoEvent
      [] OTHER                      -> "tripUpdated"

\* handleWebSocketMessage(data): the window event it dispatches, if any.
handleWebSocketMessage(data) ==
    CASE data.type = "trip_updated" -> "tripUpdated"
      [] data.type = "trip_created" -> "tripCreated"
      [] data.type = "user_joined"  -> "userJoined"
      [] data.type = "user_left"    -> "userLeft"
      [] OTHER                      -> NoEvent

\* ws.onmessage: parse inside try; a throw of JSON.parse, or of data.type on
\* null, is caught and logged.
onmessage(f) ==
    LET data == JSONparse(f) IN
    IF data.threw \/ data.isNull THEN NoEvent
    ELSE handleWebSocketMessage(data)

\* --------------------------------------------------- connection manager
\* c is the WebSocketProvider's state: the sockets it created (readyState,
\* room), wsRef.current, and the React state isConnected / currentTripId.
NumSockets(c) == Cardinality({s \in Sockets : c.readyState[s] # "NONE"})

\* WebSocket.close()
wsClose(c, s) ==
    IF c.readyState[s] \in {"CONNECTING", "OPEN"}
    THEN [c EXCEPT !.readyState[s] = "CLOSING"]
    ELSE c

\* new WebSocket(wsUrl)
wsNew(c, tripId) ==
    LET s == NumSockets(c) + 1 IN
    [c EXCEPT !.readyState[s] = "CONNECTING", !.room[s] = tripId, !.wsRef = s]

\* (mutant) the guard on user and tripId is missing
connectToTrip_NoGuard(c, u, tripId) ==
    wsNew(IF c.wsRef # NoSocket THEN wsClose(c, c.wsRef) ELSE c, tripId)

connectToTrip(c, u, tripId) ==
    IF ~u \/ tripId = NoRoom THEN c
    ELSE wsNew(IF c.wsRef # NoSocket THEN wsClose(c, c.wsRef) ELSE c, tripId)

\* (mutant) the handle is dropped without closing the socket
disconnectFromTrip_NoClose(c) ==
    [c EXCEPT !.wsRef = NoSocket, !.isConnected = FALSE,
              !.currentTripId = NoRoom]

\* what a caller hands to sendMessage
Messages == {[type |-> "ping"], [type |-> "typing"]}

\* JSON.stringify(message)
JSONstringify(m) == "{\"type\":\"" \o m.type \o "\"}"

\* (mutant) the readyState test is left out
sendMessage_NoReadyCheck(c, out, m) ==
    IF c.wsRef # NoSocket
    THEN Append(out, [sock |-> c.wsRef, data |-> JSONstringify(m)])
    ELSE out

\* sendMessage(message): out is what WebSocket.send was given so far
sendMessage(c, out, m) ==
    IF c.wsRef # NoSocket /\ c.readyState[c.wsRef] = "OPEN"
    THEN Append(out, [sock |-> c.wsRef, data |-> JSONstringify(m)])
    ELSE out

\* (mutant) setCurrentTripId(null) is left out
disconnectFromTrip_KeepsRoom(c) ==
    LET d == IF c.wsRef # NoSocket
             THEN [wsClose(c, c.wsRef) EXCEPT !.wsRef = NoSocket]
             ELSE c
    IN [d EXCEPT !.isConnected = FALSE]

disconnectFromTrip(c) ==
    LET d == IF c.wsRef # NoSocket
             THEN [wsClose(c, c.wsRef) EXCEPT !.wsRef = NoSocket]
             ELSE c
    IN [d EXCEPT !.isConnected = FALSE, !.currentTripId = NoRoom]

\* the handlers connectToTrip installs on socket s (closures over tripId)
onopen(c, s) == [c EXCEPT !.isConnected = TRUE, !.currentTripId = c.room[s]]

\* (mutant) onclose forgets setIsConnected(false)
onclose_KeepsConnected(c) == [c EXCEPT !.currentTripId = NoRoom]

onclose(c) == [c EXCEPT !.isConnected = FALSE, !.currentTripId = NoRoom]

onerror(c) == [c EXCEPT !.isConnected = FALSE]

\* what a re-render of WebSocketProvider depends on
Status(c) == <<c.isConnected, c.currentTripId>>

\* ------------------------------------------------------ backend requests
\* error.response?.data?.detail of a failed call: none (a network error, no
\* response) or the backend's detail text.
NoDetail == [present |-> FALSE, text |-> ""]
Details == {NoDetail, [present |-> TRUE, text |-> "Trip not found"]}

Fallback(op) ==
    CASE op = "list"   -> "Failed to fetch trips"
      [] op = "get"    -> "Failed to fetch trip"
      [] op = "create" -> "Failed to create trip"
      [] op = "update" -> "Failed to update trip"
      [] op = "delete" -> "Failed to delete trip"

\* (mutant) no fallback text: new Error(error.response?.data?.detail)
ErrorMessage_NoFallback(op, detail) == detail.text

\* new Error(error.response?.data?.detail || 'Failed to ...').message
ErrorMessage(op, detail) ==
    IF detail.present /\ detail.text # "" THEN detail.text ELSE Fallback(op)

Snap(x, v) == [id |-> x, ver |-> v]
NoTrip == Snap(NoRoom, 0)
Deleted == -1

\* GET /api/trips on backend state b
BackendList(b) ==
    LET Build[i \in 0..Len(RoomSeq)] ==
            IF i = 0 THEN <<>>
            ELSE IF b[RoomSeq[i]] > 0
                 THEN Append(Build[i - 1], Snap(RoomSeq[i], b[RoomSeq[i]]))
                 ELSE Build[i - 1]
    IN Build[Len(RoomSeq)]

\* ------------------------------------------------------- TripsProvider
\* setTrips(prev => [...prev, newTrip])
AppendTrip(prev, newTrip) == Append(prev, newTrip)

\* setTrips(prev => prev.map(trip => trip.id === tripId ? updatedTrip : trip))
MapTrip(prev, tripId, updatedTrip) ==
    [i \in DOMAIN prev |-> IF prev[i].id = tripId THEN updatedTrip ELSE prev[i]]

\* (mutant) the filter keeps only what precedes the first match
FilterTrip_CutsAtMatch(prev, tripId) ==
    LET hits == {i \in DOMAIN prev : prev[i].id = tripId} IN
    IF hits = {} THEN prev
    ELSE SubSeq(prev, 1, (CHOOSE i \in hits : \A j \in hits : i <= j) - 1)

\* setTrips(prev => prev.filter(trip => trip.id !== tripId))
FilterTrip(prev, tripId) == SelectSeq(prev, LAMBDA t : t.id # tripId)

VARIABLES
    user,           \* AuthContext: an identity is authenticated
    ws,             \* WebSocketProvider state (see above)
    inflight,       \* per socket: frames sent by the server, not yet arrived
    outbox,         \* what WebSocket.send was given, in order
    route,          \* tripId of the mounted TripDetail, NoRoom when not mounted
    trip,           \* TripDetail: the held snapshot
    heldSeq,        \* history: the request whose response trip holds
    listeners,      \* window 'tripUpdated' listeners: the tripId each closes over
    effectPending,  \* TripDetail's effect dependencies changed since it ran
    trips,          \* TripsProvider: trips
    loading,        \* TripsProvider: loading
    error,          \* TripsProvider: error ("" is null)
    reqs,           \* backend requests in flight
    reqCount,       \* requests issued so far
    backend,        \* backend: version of each trip (0 none yet, Deleted)
    last            \* the step just taken (history, for stating properties)

vars == <<user, ws, inflight, outbox, route, trip, heldSeq,
          listeners, effectPending, trips, loading, error, reqs, reqCount,
          backend, last>>

connVars == <<ws, inflight, outbox>>
detailVars == <<route, trip, heldSeq, listeners, effectPending>>
cacheVars == <<trips, loading, error>>
reqVars == <<reqs, reqCount>>

NoFrame == [raw |-> "none", type |-> NoType, trip_id |-> NoRoom]

\* op: the operation; sock: its socket; event: the window event dispatched;
\* thrown: the message of the error raised to the caller; frame: the frame
\* that arrived; was: the socket's readyState before the step
Step(op, s, ev, msg) ==
    [op |-> op, sock |-> s, event |-> ev, thrown |-> msg, frame |-> NoFrame,
     was |-> "NONE"]

\* a request as issued: op on trip id x, by the caller's code ("call") or by
\* handleTripUpdate ("event"); orphan: the TripDetail instance that issued it
\* has unmounted; res/data: the backend's answer once made.
Req(q, op, x, by) ==
    [seq |-> q, op |-> op, id |-> x, by |-> by, orphan |-> FALSE,
     res |-> "pending", data |-> <<>>]

Issue(op, x) ==
    /\ reqCount < MaxReq
    /\ reqs' = reqs \cup {Req(reqCount + 1, op, x, "call")}
    /\ reqCount' = reqCount + 1

\* the requests of a TripDetail instance that unmounts: its setTrip and
\* setError become no-ops, the rest of fetchTrip still runs
Orphaned(rs) == {[r EXCEPT !.orphan = (r.orphan \/ r.op = "get")] : r \in rs}

\* effectPending after a provider's state changed (or not): the providers
\* re-create getTrip / connectToTrip / disconnectFromTrip on every render, and
\* these are dependencies of TripDetail's effect
Rerender(changed) == effectPending \/ (route # NoRoom /\ changed)

InitWith(b) ==
    /\ user = FALSE
    /\ ws = [readyState |-> [s \in Sockets |-> "NONE"],
             room |-> [s \in Sockets |-> NoRoom],
             wsRef |-> NoSocket,
             isConnected |-> FALSE,
             currentTripId |-> NoRoom]
    /\ inflight = [s \in Sockets |-> 0]
    /\ outbox = <<>>
    /\ route = NoRoom
    /\ trip = NoTrip
    /\ heldSeq = 0
    /\ listeners = <<>>
    /\ effectPending = FALSE
    /\ trips = <<>>
    /\ loading = FALSE
    /\ error = ""
    /\ reqs = {}
    /\ reqCount = 0
    /\ backend = b
    /\ last = Step("init", NoSocket, NoEvent, "")

\* every trip id names a trip of the backend
Init == InitWith([x \in Rooms |-> 1])

\* the last trip id names no trip yet
InitCache ==
    InitWith([x \in Rooms |-> IF x = RoomSeq[Len(RoomSeq)] THEN 0 ELSE 1])

\* ----------------------------------------------------------- session
\* a user is authenticated: TripsProvider's effect [user] runs fetchTrips
Login ==
    /\ ~user
    /\ user' = TRUE
    /\ loading' = TRUE
    /\ error' = ""
    /\ Issue("list", NoRoom)
    /\ last' = Step("login", NoSocket, NoEvent, "")
    /\ UNCHANGED <<connVars, detailVars, trips, backend>>

\* (mutant) fetchTrips without a user empties the list
Logout_ClearsTrips ==
    /\ user
    /\ user' = FALSE
    /\ ws' = LET c == IF route # NoRoom THEN disconnectFromTrip(ws) ELSE ws
             IN IF c.wsRef # NoSocket THEN disconnectFromTrip(c) ELSE c
    /\ route' = NoRoom
    /\ trip' = NoTrip
    /\ heldSeq' = 0
    /\ listeners' = <<>>
    /\ effectPending' = FALSE
    /\ reqs' = Orphaned(reqs)
    /\ trips' = <<>>
    /\ last' = Step("logout", NoSocket, NoEvent, "")
    /\ UNCHANGED <<inflight, outbox, loading, error, reqCount, backend>>

\* the session ends: ProtectedRoute unmounts TripDetail (its cleanup runs),
\* WebSocketProvider's effect [user] disconnects, fetchTrips returns at once
Logout ==
    /\ user
    /\ user' = FALSE
    /\ ws' = LET c == IF route # NoRoom THEN disconnectFromTrip(ws) ELSE ws
             IN IF c.wsRef # NoSocket THEN disconnectFromTrip(c) ELSE c
    /\ route' = NoRoom
    /\ trip' = NoTrip
    /\ heldSeq' = 0
    /\ listeners' = <<>>
    /\ effectPending' = FALSE
    /\ reqs' = Orphaned(reqs)
    /\ last' = Step("logout", NoSocket, NoEvent, "")
    /\ UNCHANGED <<inflight, outbox, cacheVars, reqCount, backend>>

\* ---------------------------------------------------------- TripDetail
\* the route becomes /trip/t: TripDetail mounts, or its tripId changes; the
\* effect's cleanup (if it ran before) and then its body run
OpenTrip(t) ==
    /\ user
    /\ t # route
    /\ ws' = IF route # NoRoom THEN disconnectFromTrip(ws) ELSE ws
    /\ route' = t
    /\ listeners' = <<t>>
    /\ effectPending' = (route # NoRoom /\ Status(ws') # Status(ws))
    /\ Issue("get", t)
    /\ last' = Step("openTrip", NoSocket, NoEvent, "")
    /\ UNCHANGED <<inflight, outbox, trip, heldSeq, cacheVars,
                   user, backend>>

\* (mutant) the cleanup does not remove the listener
LeaveTrip_KeepsListener ==
    /\ route # NoRoom
    /\ ws' = disconnectFromTrip(ws)
    /\ route' = NoRoom
    /\ trip' = NoTrip
    /\ heldSeq' = 0
    /\ effectPending' = FALSE
    /\ reqs' = Orphaned(reqs)
    /\ last' = [Step("leaveTrip", ws.wsRef, NoEvent, "") EXCEPT
                    !.was = IF ws.wsRef # NoSocket
                            THEN ws.readyState[ws.wsRef] ELSE "NONE"]
    /\ UNCHANGED <<inflight, outbox, listeners, cacheVars, reqCount, user,
                   backend>>

\* the route leaves /trip/:tripId: TripDetail unmounts, the cleanup runs
LeaveTrip ==
    /\ route # NoRoom
    /\ ws' = disconnectFromTrip(ws)
    /\ route' = NoRoom
    /\ trip' = NoTrip
    /\ heldSeq' = 0
    /\ listeners' = <<>>
    /\ effectPending' = FALSE
    /\ reqs' = Orphaned(reqs)
    /\ last' = [Step("leaveTrip", ws.wsRef, NoEvent, "") EXCEPT
                    !.was = IF ws.wsRef # NoSocket
                            THEN ws.readyState[ws.wsRef] ELSE "NONE"]
    /\ UNCHANGED <<inflight, outbox, cacheVars, reqCount, user, backend>>

\* a dependency of the effect changed: cleanup, then the body again
EffectRerun ==
    /\ effectPending
    /\ route # NoRoom
    /\ ws' = disconnectFromTrip(ws)
    /\ listeners' = <<route>>
    /\ effectPending' = (Status(ws') # Status(ws))
    /\ Issue("get", route)
    /\ last' = Step("effect", NoSocket, NoEvent, "")
    /\ UNCHANGED <<inflight, outbox, route, trip, heldSeq,
                   cacheVars, user, backend>>

\* handleDeleteTrip, confirmed by the user
DeleteTripCall ==
    /\ route # NoRoom
    /\ Issue("delete", route)
    /\ last' = Step("deleteCall", NoSocket, NoEvent, "")
    /\ UNCHANGED <<connVars, detailVars, cacheVars, user, backend>>

\* -------------------------------------------------- other cache callers
\* CreateTrip's submit
CreateTripCall ==
    /\ user
    /\ route = NoRoom
    /\ Issue("create", NoRoom)
    /\ last' = Step("createCall", NoSocket, NoEvent, "")
    /\ UNCHANGED <<connVars, detailVars, cacheVars, user, backend>>

\* a consumer of the context calls updateTrip(x, data)
UpdateTripCall(x) ==
    /\ user
    /\ Issue("update", x)
    /\ last' = Step("updateCall", NoSocket, NoEvent, "")
    /\ UNCHANGED <<connVars, detailVars, cacheVars, user, backend>>

\* ------------------------------------------------------ socket events
\* the open event of socket s
SockOpen(s) ==
    /\ ws.readyState[s] = "CONNECTING"
    /\ ws' = onopen([ws EXCEPT !.readyState[s] = "OPEN"], s)
    /\ effectPending' = Rerender(Status(ws') # Status(ws))
    /\ last' = [Step("open", s, NoEvent, "") EXCEPT !.was = ws.readyState[s]]
    /\ UNCHANGED <<inflight, outbox, route, trip, heldSeq,
                   listeners, cacheVars, reqVars, user, backend>>

\* socket s becomes CLOSED: the closing handshake ends, the server closes,
\* or the transport fails (err: an error event precedes the close event)
SockClose(s, err) ==
    /\ ws.readyState[s] \in {"CONNECTING", "OPEN", "CLOSING"}
    /\ ws.readyState[s] = "CONNECTING" => err
    /\ ws' = LET c == [ws EXCEPT !.readyState[s] = "CLOSED"]
             IN onclose(IF err THEN onerror(c) ELSE c)
    /\ inflight' = [inflight EXCEPT ![s] = 0]
    /\ effectPending' = Rerender(Status(ws') # Status(ws))
    /\ last' = [Step(IF err THEN "fail" ELSE "close", s, NoEvent, "")
                   EXCEPT !.was = ws.readyState[s]]
    /\ UNCHANGED <<outbox, route, trip, heldSeq, listeners,
                   cacheVars, reqVars, user, backend>>

\* a consumer of the context calls sendMessage(m)
SendMessage(m) ==
    /\ Len(outbox) < MaxSend
    /\ outbox' = sendMessage(ws, outbox, m)
    /\ last' = [Step("sendMessage", ws.wsRef, NoEvent, "") EXCEPT
                    !.was = IF ws.wsRef # NoSocket
                            THEN ws.readyState[ws.wsRef] ELSE "NONE"]
    /\ UNCHANGED <<ws, inflight, detailVars, cacheVars, reqVars, user, backend>>

InFlight ==
    LET Sum[n \in 0..MaxReq] ==
            IF n = 0 THEN 0 ELSE Sum[n - 1] + inflight[n]
    IN Sum[MaxReq]

\* the server puts a frame on the channel of socket s (what the frame holds
\* shows when it arrives)
ServerSend(s) ==
    /\ ws.readyState[s] = "OPEN"
    /\ InFlight < MaxInflight
    /\ inflight' = [inflight EXCEPT ![s] = @ + 1]
    /\ last' = Step("env", NoSocket, NoEvent, "")
    /\ UNCHANGED <<ws, outbox, detailVars, cacheVars, reqVars, user, backend>>

\* (mutant) the listener refetches on every tripUpdated event that names a trip
handleTripUpdate_AnyTrip(t, f) == f.trip_id # NoRoom

\* handleTripUpdate of the listener closing over tripId t, on event detail f:
\* whether it calls fetchTrip
handleTripUpdate(t, f) == f.trip_id = t

\* (mutant) the listener is also registered for the presence events, and
\* refetches on them
Refetching_PresenceToo(ev, f) ==
    IF ev = "tripUpdated"
    THEN {i \in DOMAIN listeners : handleTripUpdate(listeners[i], f)}
    ELSE IF ev \in {"userJoined", "userLeft"} THEN DOMAIN listeners ELSE {}

\* (mutant) a listener skips its refetch while a refetch is in flight
Refetching_SkipsWhileFetching(ev, f) ==
    IF ev = "tripUpdated" /\ ~\E r \in reqs : r.op = "get" /\ r.by = "event"
    THEN {i \in DOMAIN listeners : handleTripUpdate(listeners[i], f)}
    ELSE {}

\* the listeners of window event ev that refetch on detail f
Refetching(ev, f) ==
    IF ev = "tripUpdated"
    THEN {i \in DOMAIN listeners : handleTripUpdate(listeners[i], f)}
    ELSE {}

\* (mutant) handleWebSocketMessage also writes a tripUpdated payload into the
\* cached list
Deliver_WritesPayload(s, f) ==
    /\ inflight[s] > 0
    /\ inflight' = [inflight EXCEPT ![s] = @ - 1]
    /\ LET fired == ws.readyState[s] = "OPEN"
           ev == IF fired THEN onmessage(f) ELSE NoEvent
           hit == Refetching(ev, f)
       IN /\ reqCount + Cardinality(hit) <= MaxReq
          /\ reqCount' = reqCount + Cardinality(hit)
          /\ reqs' = reqs \cup {Req(reqCount + n, "get", f.trip_id, "event") :
                                   n \in 1..Cardinality(hit)}
          /\ trips' = IF ev = "tripUpdated"
                      THEN MapTrip(trips, f.trip_id, Snap(f.trip_id, 0))
                      ELSE trips
          /\ last' = [Step(IF fired THEN "message" ELSE "discard", s, ev, "")
                         EXCEPT !.frame = f, !.was = ws.readyState[s]]
    /\ UNCHANGED <<ws, outbox, detailVars, loading, error, user, backend>>

\* the next frame of socket s arrives, holding f: a message event fires only
\* while the socket is OPEN; onmessage decodes it and window.dispatchEvent
\* runs the listeners
Deliver(s, f) ==
    /\ inflight[s] > 0
    /\ inflight' = [inflight EXCEPT ![s] = @ - 1]
    /\ LET fired == ws.readyState[s] = "OPEN"
           ev == IF fired THEN onmessage(f) ELSE NoEvent
           hit == Refetching(ev, f)
       IN /\ reqCount + Cardinality(hit) <= MaxReq
          /\ reqCount' = reqCount + Cardinality(hit)
          /\ reqs' = reqs \cup {Req(reqCount + n, "get", f.trip_id, "event") :
                                   n \in 1..Cardinality(hit)}
          /\ last' = [Step(IF fired THEN "message" ELSE "discard", s, ev, "")
                         EXCEPT !.frame = f, !.was = ws.readyState[s]]
    /\ UNCHANGED <<ws, outbox, detailVars, cacheVars, user, backend>>

\* ------------------------------------------------------------ backend
\* another participant changes trip x
OtherUpdate(x) ==
    /\ backend[x] \in 1..(MaxVer - 1)
    /\ backend' = [backend EXCEPT ![x] = @ + 1]
    /\ last' = Step("env", NoSocket, NoEvent, "")
    /\ UNCHANGED <<connVars, detailVars, cacheVars, reqVars, user>>

Answer(r, data) == (reqs \ {r}) \cup {[r EXCEPT !.res = "ok", !.data = data]}

\* the backend serves request r
ServerOk(r) ==
    /\ r.res = "pending"
    /\ \/ /\ r.op = "list"
          /\ reqs' = Answer(r, BackendList(backend))
          /\ UNCHANGED backend
       \/ /\ r.op = "get"
          /\ backend[r.id] > 0
          /\ reqs' = Answer(r, <<Snap(r.id, backend[r.id])>>)
          /\ UNCHANGED backend
       \/ /\ r.op = "create"
          /\ \E x \in Rooms :
                /\ backend[x] = 0
                /\ backend' = [backend EXCEPT ![x] = 1]
                /\ reqs' = Answer([r EXCEPT !.id = x], <<Snap(x, 1)>>) \ {r}
       \/ /\ r.op = "update"
          /\ backend[r.id] \in 1..(MaxVer - 1)
          /\ backend' = [backend EXCEPT ![r.id] = @ + 1]
          /\ reqs' = Answer(r, <<Snap(r.id, backend[r.id] + 1)>>)
       \/ /\ r.op = "delete"
          /\ backend[r.id] > 0
          /\ backend' = [backend EXCEPT ![r.id] = Deleted]
          /\ reqs' = Answer(r, <<>>)
    /\ last' = Step("env", NoSocket, NoEvent, "")
    /\ UNCHANGED <<connVars, detailVars, cacheVars, reqCount, user>>

\* ----------------------------------------------------------- responses
\* A call fails with detail d: the network fails (before or after the backend
\* served the request) or the backend rejects it.

\* fetchTrips resumes with the list
ListOk(r) ==
    /\ r.op = "list" /\ r.res = "ok"
    /\ reqs' = reqs \ {r}
    /\ trips' = r.data
    /\ loading' = FALSE
    /\ effectPending' = Rerender(TRUE)
    /\ last' = Step("listOk", NoSocket, NoEvent, "")
    /\ UNCHANGED <<connVars, route, trip, heldSeq, listeners, error,
                   reqCount, user, backend>>

\* fetchTrips resumes in its catch
ListFail(r, d) ==
    /\ r.op = "list"
    /\ reqs' = reqs \ {r}
    /\ error' = ErrorMessage("list", d)
    /\ loading' = FALSE
    /\ effectPending' = Rerender(loading \/ error' # error)
    /\ last' = Step("listFail", NoSocket, NoEvent, "")
    /\ UNCHANGED <<connVars, route, trip, heldSeq, listeners, trips,
                   reqCount, user, backend>>

\* getTrip resolves and fetchTrip resumes: setTrip, then connectToTrip. The
\* connectToTrip it calls is the closure of the render in which the effect
\* ran, where user was set (TripDetail renders only under ProtectedRoute).
GetOk(r) ==
    /\ r.op = "get" /\ r.res = "ok"
    /\ reqs' = reqs \ {r}
    /\ trip' = IF r.orphan THEN trip ELSE r.data[1]
    /\ heldSeq' = IF r.orphan THEN heldSeq ELSE r.seq
    /\ ws' = connectToTrip(ws, TRUE, r.id)
    /\ last' = Step("getOk", ws'.wsRef, NoEvent, "")
    /\ UNCHANGED <<inflight, outbox, route, listeners,
                   effectPending, cacheVars, reqCount, user, backend>>

\* getTrip rejects: setError in TripsProvider, rethrown to fetchTrip's catch
GetFail(r, d) ==
    /\ r.op = "get"
    /\ reqs' = reqs \ {r}
    /\ error' = ErrorMessage("get", d)
    /\ effectPending' = Rerender(error' # error)
    /\ last' = Step("getFail", NoSocket, NoEvent, error')
    /\ UNCHANGED <<connVars, route, trip, heldSeq, listeners, trips, loading,
                   reqCount, user, backend>>

\* createTrip / updateTrip resolve
MutateOk(r) ==
    /\ r.op \in {"create", "update"} /\ r.res = "ok"
    /\ reqs' = reqs \ {r}
    /\ trips' = IF r.op = "create" THEN AppendTrip(trips, r.data[1])
                ELSE MapTrip(trips, r.id, r.data[1])
    /\ effectPending' = Rerender(TRUE)
    /\ last' = Step(IF r.op = "create" THEN "createOk" ELSE "updateOk",
                    NoSocket, NoEvent, "")
    /\ UNCHANGED <<connVars, route, trip, heldSeq, listeners,
                   loading, error, reqCount, user, backend>>

\* deleteTrip resolves; handleDeleteTrip then navigates to /dashboard, which
\* unmounts TripDetail
DeleteOk(r) ==
    /\ r.op = "delete" /\ r.res = "ok"
    /\ trips' = FilterTrip(trips, r.id)
    /\ ws' = IF route # NoRoom THEN disconnectFromTrip(ws) ELSE ws
    /\ route' = NoRoom
    /\ trip' = NoTrip
    /\ heldSeq' = 0
    /\ listeners' = <<>>
    /\ effectPending' = FALSE
    /\ reqs' = Orphaned(reqs \ {r})
    /\ last' = Step("deleteOk", NoSocket, NoEvent, "")
    /\ UNCHANGED <<inflight, outbox, loading, error, reqCount, user,
                   backend>>

\* createTrip / updateTrip / deleteTrip reject: setError, rethrown
MutateFail(r, d) ==
    /\ r.op \in {"create", "update", "delete"}
    /\ reqs' = reqs \ {r}
    /\ error' = ErrorMessage(r.op, d)
    /\ effectPending' = Rerender(error' # error)
    /\ last' = Step("mutateFail", NoSocket, NoEvent, error')
    /\ UNCHANGED <<connVars, route, trip, heldSeq, listeners, trips,
                   loading, reqCount, user, backend>>

Session == Login \/ Logout

Detail ==
    \/ \E t \in Rooms : OpenTrip(t)
    \/ LeaveTrip
    \/ EffectRerun

Channel ==
    \/ \E s \in Sockets : SockOpen(s)
    \/ \E s \in Sockets, err \in BOOLEAN : SockClose(s, err)
    \/ \E s \in Sockets : ServerSend(s)
    \/ \E s \in Sockets, f \in RawFrames : Deliver(s, f)

Fetches ==
    \/ \E r \in reqs : ServerOk(r)
    \/ \E r \in reqs : ListOk(r)
    \/ \E r \in reqs, d \in Details : ListFail(r, d)
    \/ \E r \in reqs : GetOk(r)
    \/ \E r \in reqs, d \in Details : GetFail(r, d)

Mutations ==
    \/ DeleteTripCall
    \/ CreateTripCall
    \/ \E x \in Rooms : UpdateTripCall(x)
    \/ \E r \in reqs : MutateOk(r)
    \/ \E r \in reqs : DeleteOk(r)
    \/ \E r \in reqs, d \in Details : MutateFail(r, d)

\* The synchronisation core: the session, the detail view, the channel and
\* the fetches, every trip of the backend staying as it is.
Next == Session \/ Detail \/ Channel \/ Fetches

Spec == Init /\ [][Next]_vars

\* the sockets' own events, no frames
Connection ==
    \/ \E s \in Sockets : SockOpen(s)
    \/ \E s \in Sockets, err \in BOOLEAN : SockClose(s, err)

\* The outbound side: the session, the detail view, the fetches, the
\* sockets' events and the callers of sendMessage (no inbound frames).
NextSend ==
    Session \/ Detail \/ Fetches \/ Connection \/ \E m \in Messages : SendMessage(m)

SpecSend == Init /\ [][NextSend]_vars

\* The removal of trips: the session, the detail view, the fetches and
\* handleDeleteTrip (no channel), every trip id naming a trip.
Removal ==
    \/ DeleteTripCall
    \/ \E r \in reqs : DeleteOk(r)
    \/ \E r \in reqs, d \in Details : MutateFail(r, d)

NextRemove == Session \/ Detail \/ Fetches \/ Removal

SpecRemove == Init /\ [][NextRemove]_vars

\* The inbound side while every backend call succeeds and the session lasts.
FetchesOk ==
    \/ \E r \in reqs : ServerOk(r)
    \/ \E r \in reqs : ListOk(r)
    \/ \E r \in reqs : GetOk(r)

NextFrames == Login \/ Detail \/ Channel \/ FetchesOk

SpecFrames == Init /\ [][NextFrames]_vars

\* The fetches racing changes made by other participants (no channel).
NextFetch == Session \/ Detail \/ Fetches \/ \E x \in Rooms : OtherUpdate(x)

SpecFetch == Init /\ [][NextFetch]_vars

\* The trip cache: the session, the detail view, the fetches and this
\* client's own mutations (no channel); the last trip id is still free.
NextCache == Session \/ Detail \/ Fetches \/ Mutations

SpecCache == InitCache /\ [][NextCache]_vars

\* The fetches and the channel, racing changes made by other participants.
NextSync == Next \/ \E x \in Rooms : OtherUpdate(x)

SpecSync == Init /\ [][NextSync]_vars

\* the close event of a socket on which close() was called
ClosingDone ==
    \E s \in Sockets : ws.readyState[s] = "CLOSING" /\ SockClose(s, FALSE)

\* The same, under the scheduling of the browser and of the network: an
\* effect whose dependencies changed runs, a request gets its answer and the
\* answer arrives, a connecting socket opens or fails, a close handshake
\* ends, a frame on its way arrives.
SpecLive ==
    /\ Init
    /\ [][NextSync]_vars
    /\ WF_vars(EffectRerun)
    /\ WF_vars(Fetches)
    /\ WF_vars(\E s \in Sockets : SockOpen(s) \/ SockClose(s, TRUE))
    /\ WF_vars(ClosingDone)
    /\ WF_vars(\E s \in Sockets, f \in RawFrames : Deliver(s, f))

\* The synchronisation core under the same scheduling, except that a
\* connecting socket may get neither its open nor its error event (the
\* handshake hangs).
SpecHang ==
    /\ Init
    /\ [][Next]_vars
    /\ WF_vars(EffectRerun)
    /\ WF_vars(Fetches)
    /\ WF_vars(ClosingDone)
    /\ WF_vars(\E s \in Sockets, f \in RawFrames : Deliver(s, f))

\* ------------------------------------------------------------- claims
Current == ws.wsRef
OpenSockets == {s \in Sockets : ws.readyState[s] = "OPEN"}
Dispatched == last.op = "message" /\ last.event # NoEvent

\* C1: at most one channel is Open at any instant, and when a frame of a
\* channel is dispatched every channel created before it is fully closed.
C1_OneChannelPreviousClosed ==
    /\ Cardinality(OpenSockets) <= 1
    /\ Dispatched =>
          \A s \in Sockets : s < last.sock => ws.readyState[s] = "CLOSED"

\* C2: a bind to another room while Open first closes the old channel fully
\* (Closing, then Idle) and only then creates the new one (Connecting); and
\* no frame of a channel is dispatched once its Closing began.
C2_CloseThenConnect ==
    [][/\ (/\ last'.op = "getOk"
           /\ Current # NoSocket
           /\ ws.readyState[Current] = "OPEN"
           /\ ws'.room[ws'.wsRef] # ws.room[Current])
          => ws'.readyState[Current] = "CLOSED"
       /\ (last'.op = "message" /\ last'.event # NoEvent)
          => ws.readyState[last'.sock] = "OPEN"]_vars

\* C3: a frame is handled only when it comes from the channel of the current
\* binding: once disconnectFromTrip (or a newer bind) has released a channel,
\* a frame of it that arrives is discarded.
C3_NoDispatchAfterUnbind ==
    last.op = "message" => (last.sock = Current /\ Current # NoSocket)

\* a frame that was in flight arrived after unbind and was discarded
C3_Witness ==
    /\ last.op = "discard"
    /\ Current = NoSocket
    /\ last.frame.type = "trip_updated"
    /\ last.frame.trip_id = ws.room[last.sock]

\* C4: connectToTrip for the room of the current binding, while that binding
\* is Connecting or Open, changes nothing in the connection manager.
C4_BindIdempotent ==
    [][(/\ last'.op = "getOk"
        /\ Current # NoSocket
        /\ ws.readyState[Current] \in {"CONNECTING", "OPEN"}
        /\ ws'.room[ws'.wsRef] = ws.room[Current])
       => ws' = ws]_vars

\* C5: the response of a request for the held trip that was issued before
\* the request whose result is held is discarded.
C5_StaleResponseDiscarded ==
    [][\A r \in reqs :
          (/\ last'.op = "getOk"
           /\ reqs' = reqs \ {r}
           /\ ~r.orphan
           /\ trip.id = r.id
           /\ r.seq < heldSeq)
          => trip' = trip]_vars

CachedIds(ts) == {ts[i].id : i \in DOMAIN ts}
Entries(ts, x) == {ts[i] : i \in {j \in DOMAIN ts : ts[j].id = x}}

\* C6: a trip_updated event for a cached trip X, arriving on X's channel,
\* triggers exactly one get(X); and when a refetch triggered by such an event
\* resolves, the cache's entry for X is the response.
C6_RefetchReplacesCacheEntry ==
    [][/\ (/\ last'.op = "message"
           /\ last'.frame.type = "trip_updated"
           /\ last'.frame.trip_id = ws.room[last'.sock]
           /\ last'.frame.trip_id \in CachedIds(trips))
          => \E r \in reqs' :
                /\ reqs' = reqs \cup {r}
                /\ r \notin reqs
                /\ r.op = "get"
                /\ r.id = last'.frame.trip_id
       /\ \A r \in reqs :
             (/\ last'.op = "getOk"
              /\ reqs' = reqs \ {r}
              /\ r.by = "event"
              /\ r.id \in CachedIds(trips))
             => Entries(trips', r.id) = {r.data[1]}]_vars

Decodable(f) == f.raw = "object" /\ f.type # NoType

\* C7: a frame that does not decode (no JSON, or no type field) is dropped:
\* no event is dispatched, no request is issued, the connection manager's
\* state and status stay as they were, and its channel stays Open.
C7_UndecodableDropped ==
    [][(last'.op = "message" /\ ~Decodable(last'.frame))
       => /\ last'.event = NoEvent
          /\ ws' = ws
          /\ reqs' = reqs
          /\ ws'.readyState[last'.sock] = "OPEN"]_vars

\* frames that do not decode arrived on the open, connected channel
C7_Witness ==
    /\ last.op = "message"
    /\ last.frame.raw \in {"text", "null"}
    /\ ws.isConnected
    /\ ws.readyState[last.sock] = "OPEN"

\* C8: when getTrip, createTrip, updateTrip or deleteTrip fails, trips is
\* left as it was and the error raised to the caller has a non-empty message.
C8_FailureLeavesCache ==
    [][last'.op \in {"getFail", "mutateFail"}
       => (trips' = trips /\ last'.thrown # "")]_vars

\* a mutation failed without a detail while the cache held trips
C8_Witness ==
    /\ last.op = "mutateFail"
    /\ last.thrown = Fallback("create")
    /\ trips # <<>>

\* C9: an error or close event of the current channel while it is Open or
\* Connecting sets isConnected to false in that step, and raises nothing.
C9_OfflineAtOnce ==
    [][(/\ last'.op \in {"fail", "close"}
        /\ last'.sock = Current
        /\ ws.readyState[Current] \in {"CONNECTING", "OPEN"})
       => (~ws'.isConnected /\ last'.thrown = "")]_vars

\* the current channel failed while Open and connected
C9_Witness ==
    /\ last.op = "fail"
    /\ last.was = "OPEN"
    /\ last.sock = Current
    /\ ~ws.isConnected

\* C10: when the current channel closes abnormally while Open, the manager
\* itself starts to reconnect to the same room.
C10_ReconnectsItself ==
    [][(/\ last'.op = "fail"
        /\ last'.sock = Current
        /\ ws.readyState[Current] = "OPEN")
       => /\ ws'.wsRef # NoSocket
          /\ ws'.readyState[ws'.wsRef] = "CONNECTING"
          /\ ws'.room[ws'.wsRef] = ws.room[Current]]_vars

\* C11: in every reachable state the cache holds at most one snapshot per
\* trip id.
C11_OneSnapshotPerId ==
    \A i, j \in DOMAIN trips : trips[i].id = trips[j].id => i = j

\* the broadcast of the last change of trip x is dispatched at this client,
\* on the channel of x, while the client caches x and shows its detail view
Notified(x) ==
    /\ last.op = "message"
    /\ last.event = "tripUpdated"
    /\ last.frame.trip_id = x
    /\ ws.room[last.sock] = x
    /\ route = x
    /\ backend[x] = MaxVer
    /\ x \in CachedIds(trips)

Consistent(x) == Entries(trips, x) = {Snap(x, backend[x])}

C13_UnbindReleases ==
    [][last'.op = "leaveTrip" =>
          /\ ws'.wsRef = NoSocket
          /\ ws'.currentTripId = NoRoom
          /\ ~ws'.isConnected
          /\ (Current # NoSocket /\ ws.readyState[Current] \in {"CONNECTING", "OPEN"})
                => ws'.readyState[Current] = "CLOSING"
          /\ Current = NoSocket => ws' = ws]_vars

C13_Witness ==
    /\ last.op = "leaveTrip"
    /\ last.was = "OPEN"
    /\ ws.readyState[last.sock] = "CLOSING"
    /\ ws.wsRef = NoSocket

\* C14: while no session exists no channel is connecting or open.
C14_NoChannelWithoutSession ==
    ~user => \A s \in Sockets : ws.readyState[s] \notin {"CONNECTING", "OPEN"}

\* C15: sendMessage while the channel is not OPEN (no handle, CONNECTING,
\* CLOSING or CLOSED) hands nothing to the socket, raises nothing and changes
\* no state; and the socket is handed a message only by a sendMessage call on
\* an OPEN channel, that call's message (nothing is queued or replayed).
C15_SendBestEffort ==
    [][/\ (last'.op = "sendMessage" /\ last'.was # "OPEN")
          => /\ outbox' = outbox
             /\ ws' = ws
             /\ reqs' = reqs
             /\ last'.thrown = ""
       /\ outbox' # outbox
          => /\ last'.op = "sendMessage"
             /\ last'.was = "OPEN"
             /\ Len(outbox') = Len(outbox) + 1
             /\ SubSeq(outbox', 1, Len(outbox)) = outbox
             /\ outbox'[Len(outbox')].sock = Current]_vars

C15_Witness ==
    /\ last.op = "sendMessage"
    /\ last.was = "CONNECTING"
    /\ last.sock = Current
    /\ outbox = <<>>

\* C16: every trip_created frame that arrives makes the client issue a
\* request for the trip list.
C16_CreatedRefetchesList ==
    [][(last'.op = "message" /\ last'.frame.type = "trip_created")
          => \E r \in reqs' \ reqs : r.op = "list"]_vars

UnknownType(f) == f.raw = "object" /\ f.type \notin EventTypes \cup {NoType}

\* C17: a frame whose type is none of the four known ones is still
\* dispatched to subscribers, as some event.
C17_UnknownDispatched ==
    [][(last'.op = "message" /\ UnknownType(last'.frame))
          => last'.event # NoEvent]_vars

\* C18: a frame of unknown type issues no request and leaves the cache, the
\* detail view's snapshot and the connection manager's state as they are.
C18_UnknownNoReaction ==
    [][(last'.op = "message" /\ UnknownType(last'.frame))
          => /\ reqs' = reqs
             /\ trips' = trips
             /\ trip' = trip
             /\ ws' = ws]_vars

C18_Witness ==
    /\ last.op = "message"
    /\ UnknownType(last.frame)
    /\ last.frame.trip_id = route
    /\ route # NoRoom
    /\ listeners # <<>>

\* C19: when createTrip or updateTrip resolves, the cache's entry for the id
\* is the snapshot the server returned (inserted if the id was not cached).
C19_ReturnedSnapshotCached ==
    [][\A r \in reqs :
          (last'.op \in {"createOk", "updateOk"} /\ reqs' = reqs \ {r})
          => Entries(trips', r.id) = {r.data[1]}]_vars

\* the entries of ts before position i whose id is x
HitsBefore(ts, x, i) == Cardinality({j \in 1..(i - 1) : ts[j].id = x})

ListInFlight(rs) == \E r \in rs : r.op = "list"

\* C21: loading is true exactly while a list fetch is in flight, and error
\* changes only when a list fetch starts or fails.
C21_FlagsOfListFetchOnly ==
    [][/\ loading' <=> ListInFlight(reqs')
       /\ error' # error => last'.op \in {"login", "listFail"}]_vars

\* the Sync Event of each known frame type
SyncEventOf ==
    [t \in EventTypes |->
        CASE t = "trip_updated" -> "tripUpdated"
          [] t = "trip_created" -> "tripCreated"
          [] t = "user_joined"  -> "userJoined"
          [] t = "user_left"    -> "userLeft"]

Binding(c) ==
    <<c.wsRef, IF c.wsRef # NoSocket THEN c.readyState[c.wsRef] ELSE "NONE">>

\* the status the state of the manager calls for
StatusOf(c) ==
    IF c.wsRef # NoSocket /\ c.readyState[c.wsRef] = "OPEN"
    THEN <<TRUE, c.room[c.wsRef]>>
    ELSE <<FALSE, NoRoom>>

\* C23: when the current channel opens the status becomes connected with the
\* channel's room, and every step that changes the manager's state leaves
\* the published status equal to the one of the new state.
C23_TransitionsPublished ==
    [][/\ (last'.op = "open" /\ last'.sock = Current)
          => Status(ws') = <<TRUE, ws.room[Current]>>
       /\ Binding(ws') # Binding(ws) => Status(ws') = StatusOf(ws')]_vars

Presence(f) == f.raw = "object" /\ f.type \in {"user_joined", "user_left"}

\* C24: a user_joined or user_left frame is forwarded as its window event
\* and nothing else: no request is issued, and neither the cached trips nor
\* the detail view's snapshot change.
C24_PresenceOnlyForwarded ==
    [][(last'.op = "message" /\ Presence(last'.frame))
          => /\ last'.event = SyncEventOf[last'.frame.type]
             /\ reqs' = reqs
             /\ reqCount' = reqCount
             /\ trips' = trips
             /\ trip' = trip]_vars

C24_Witness ==
    /\ last.op = "message"
    /\ last.event = "userJoined"
    /\ listeners # <<>>
    /\ trip # NoTrip
    /\ trips # <<>>

\* the channel of trip x opens after an earlier channel of x of this client
\* closed, while the client caches x and the backend's x is in its last
\* version
Reconnected(x) ==
    /\ last.op = "open"
    /\ last.sock = Current
    /\ ws.room[Current] = x
    /\ \E s \in Sockets :
          s < Current /\ ws.room[s] = x /\ ws.readyState[s] = "CLOSED"
    /\ route = x
    /\ x \in CachedIds(trips)
    /\ backend[x] = MaxVer

Connecting(s) == ws.wsRef = s /\ ws.readyState[s] = "CONNECTING"

\* C26: the manager never stays in Connecting for ever, even when the
\* socket gets neither an open nor an error event.
C26_ConnectTimesOut ==
    \A s \in Sockets : Connecting(s) ~> ~Connecting(s)

\* C27: the status says connected exactly when the socket the handle holds
\* is OPEN, and then its roomId is that socket's room.
C27_StatusMatchesBinding ==
    /\ ws.isConnected <=> (Current # NoSocket /\ ws.readyState[Current] = "OPEN")
    /\ ws.isConnected => ws.currentTripId = ws.room[Current]

\* C28: an open, close or error event of a socket that is not the one the
\* handle holds leaves the published status as it is.
C28_StaleEventsIgnored ==
    [][(last'.op \in {"open", "close", "fail"} /\ last'.sock # Current)
          => Status(ws') = Status(ws)]_vars

\* what may end a channel from outside the client's own doing: a transport
\* failure or close, a route change, a logout, a frame
Excused == {"fail", "close", "openTrip", "leaveTrip", "deleteOk", "logout",
            "message", "discard"}

\* the channel of the displayed trip is open and published, no fetch is
\* pending and no frame is on its way
Settled ==
    /\ Current # NoSocket
    /\ ws.readyState[Current] = "OPEN"
    /\ ws.isConnected
    /\ route = ws.room[Current]
    /\ reqs = {}
    /\ InFlight = 0

\* C29: from a settled state, a step that is none of the excused ones
\* leaves the channel the current one, open, with the status connected.
C29_NoSelfInflictedCycle ==
    [][(Settled /\ last'.op \notin Excused)
          => /\ ws'.wsRef = Current
             /\ ws'.readyState[Current] = "OPEN"
             /\ ws'.isConnected]_vars

\* C30: when the refetch a trip_updated event triggered resolves, the
\* channel that was current and open still is.
C30_RefetchKeepsChannel ==
    [][\A r \in reqs :
          (/\ last'.op = "getOk"
           /\ reqs' = reqs \ {r}
           /\ r.by = "event"
           /\ Current # NoSocket
           /\ ws.readyState[Current] = "OPEN"
           /\ ws.room[Current] = r.id)
          => /\ ws'.wsRef = Current
             /\ ws'.readyState[Current] = "OPEN"]_vars

\* C31: a get response for a trip that is not the displayed one leaves the
\* displayed snapshot and the connection as they are.
C31_LateResponseIgnored ==
    [][\A r \in reqs :
          (last'.op = "getOk" /\ reqs' = reqs \ {r} /\ r.id # route)
          => (trip' = trip /\ ws' = ws)]_vars

Held(ts) == {ts[i] : i \in DOMAIN ts}

\* C32: a list response that arrives right after a create, update or remove
\* succeeded (so its request was issued before) does not undo it: the
\* removed id stays absent, the created snapshot and the entries that equal
\* the backend's trips stay.
C32_ListKeepsMutations ==
    [][last'.op = "listOk" =>
          /\ last.op = "deleteOk"
                => \A x \in Rooms :
                      (backend[x] = Deleted /\ x \notin CachedIds(trips))
                      => x \notin CachedIds(trips')
          /\ last.op = "createOk" => trips[Len(trips)] \in Held(trips')
          /\ last.op = "updateOk"
                => \A t \in Held(trips) :
                      t = Snap(t.id, backend[t.id]) => t \in Held(trips')]_vars

\* The trip cache next to the channel: the detail view, the channel, the
\* fetches that succeed and this client's own mutations, under one session.
NextWrites == NextFrames \/ Mutations

SpecWrites == InitCache /\ [][NextWrites]_vars

CacheOps == {"list", "create", "update", "delete"}

C34_OverwriteInPlace ==
    [][\A r \in reqs :
          (/\ last'.op \in {"updateOk", "getOk"}
           /\ reqs' = reqs \ {r}
           /\ r.res = "ok")
          => /\ Len(trips') = Len(trips)
             /\ \A i \in DOMAIN trips :
                   trips'[i] = IF trips[i].id = r.id THEN r.data[1]
                               ELSE trips[i]]_vars

\* The page of the first trip is open and its channel is up: a user is
\* authenticated, the list is loaded, fetchTrip's response is held and the
\* socket it created has opened (which re-rendered the providers). Requests
\* are numbered from that fetch.
InitOpen ==
    LET a == RoomSeq[1] IN
    /\ user = TRUE
    /\ ws = [readyState |-> [s \in Sockets |-> IF s = 1 THEN "OPEN" ELSE "NONE"],
             room |-> [s \in Sockets |-> IF s = 1 THEN a ELSE NoRoom],
             wsRef |-> 1,
             isConnected |-> TRUE,
             currentTripId |-> a]
    /\ inflight = [s \in Sockets |-> 0]
    /\ outbox = <<>>
    /\ route = a
    /\ trip = Snap(a, 1)
    /\ heldSeq = 1
    /\ listeners = <<a>>
    /\ effectPending = TRUE
    /\ trips = BackendList([x \in Rooms |-> 1])
    /\ loading = FALSE
    /\ error = ""
    /\ reqs = {}
    /\ reqCount = 1
    /\ backend = [x \in Rooms |-> 1]
    /\ last = [Step("open", 1, NoEvent, "") EXCEPT !.was = "CONNECTING"]

\* The frames of an open page: the detail view, the channel, and the get
\* requests answered and consumed.
NextBurst ==
    \/ Detail
    \/ Channel
    \/ \E r \in reqs : ServerOk(r)
    \/ \E r \in reqs : GetOk(r)

SpecBurst == InitOpen /\ [][NextBurst]_vars

EventGets(rs, x) == {r \in rs : r.op = "get" /\ r.by = "event" /\ r.id = x}

\* C35: a trip_updated frame for the trip of the mounted listener is
\* dispatched whatever refetches are in flight, and its handler issues one
\* more get request next to them.
C35_DispatchDoesNotWait ==
    [][(/\ last'.op = "message"
        /\ last'.event = "tripUpdated"
        /\ listeners # <<>>
        /\ listeners[1] = last'.frame.trip_id)
       => /\ reqs \subseteq reqs'
          /\ Cardinality(EventGets(reqs', listeners[1]))
                = Cardinality(EventGets(reqs, listeners[1])) + 1]_vars

\* the second of two trip_updated frames was dispatched while the refetch of
\* the first was still in flight: two refetches of the trip are in flight
C35_Witness ==
    /\ last.op = "message"
    /\ last.event = "tripUpdated"
    /\ \E q, r \in EventGets(reqs, last.frame.trip_id) :
          q.seq # r.seq /\ q.res = "pending"

\* C36: a trip_updated frame without a trip id, or with the id of another
\* trip than the one the mounted listener closes over, is dispatched without
\* any request being issued, and the held snapshot and the cached list stay
\* as they are.
C36_ForeignUpdateIgnored ==
    [][(/\ last'.op = "message"
        /\ last'.event = "tripUpdated"
        /\ listeners # <<>>
        /\ last'.frame.trip_id # listeners[1])
       => /\ reqs' = reqs
          /\ reqCount' = reqCount
          /\ trip' = trip
          /\ trips' = trips]_vars

\* a trip_updated frame for another trip reached the mounted listener
C36_Witness ==
    /\ last.op = "message"
    /\ last.event = "tripUpdated"
    /\ listeners # <<>>
    /\ last.frame.trip_id \in Rooms \ {listeners[1]}

\* the handlers subscribed to 'tripUpdated' that the detail f concerns
Subscribed(ls, f) == {i \in DOMAIN ls : ls[i] = f.trip_id}

ConnectCall(u, tripId) ==
    /\ NumSockets(ws) < Cardinality(Sockets)
    /\ ws' = connectToTrip(ws, u, tripId)
    /\ last' = [Step(IF u THEN "connectCall" ELSE "connectNoUser",
                     ws'.wsRef, NoEvent, "")
                   EXCEPT !.frame = [NoFrame EXCEPT !.trip_id = tripId],
                          !.was = IF ws.wsRef # NoSocket
                                  THEN ws.readyState[ws.wsRef] ELSE "NONE"]
    /\ UNCHANGED <<inflight, outbox, detailVars, cacheVars, reqVars, user,
                   backend>>

\* connectToTrip on every argument, between the session's and the sockets'
\* events.
NextConnect ==
    \/ Session
    \/ Connection
    \/ \E r \in reqs : ServerOk(r)
    \/ \E r \in reqs : ListOk(r)
    \/ \E u \in BOOLEAN, tripId \in Rooms \cup {NoRoom} : ConnectCall(u, tripId)

SpecConnect == Init /\ [][NextConnect]_vars

\* C38: connectToTrip called without a user, or with an empty trip id, leaves
\* the provider as it is: no socket created, none closed, the handle, the
\* status and the bound trip unchanged.
C38_GuardedConnectIsNoOp ==
    [][(\/ last'.op = "connectNoUser"
        \/ last'.op = "connectCall" /\ last'.frame.trip_id = NoRoom)
       => ws' = ws]_vars

\* connectToTrip was called for a trip without a user while a channel was
\* open, and the channel is still the open one
C38_Witness ==
    /\ last.op = "connectNoUser"
    /\ last.frame.trip_id \in Rooms
    /\ last.was = "OPEN"
    /\ last.sock # NoSocket
    /\ ws.readyState[last.sock] = "OPEN"

\* the sequence numbers of the requests issued and not yet consumed
Issued(rs) == {r.seq : r \in rs}

\* C39: when the session ends, fetchTrips runs without a user: no request is
\* issued and trips, loading and error stay as they are (the trips of the
\* session that ended stay cached).
C39_FetchWithoutUserIsNoOp ==
    [][last'.op = "logout"
       => /\ trips' = trips
          /\ loading' = loading
          /\ error' = error
          /\ reqCount' = reqCount
          /\ Issued(reqs') = Issued(reqs)]_vars

\* the session ended and the trips it had loaded are still cached
C39_Witness ==
    /\ last.op = "logout"
    /\ ~user
    /\ trips # <<>>
====
